---- MODULE Spec2Model ----
(***************************************************************************)
(* Model of src/Grover-Search.py: the Grover search demonstration script.  *)
(* The script is one top-level sequence of statements; pc is the position  *)
(* of the interpreter in it.  Strings are sequences of one-character       *)
(* strings, Python's 0-based indices are kept and turned into 1-based      *)
(* sequence indices by PyIndex.  The quantum SDK and the cloud service are *)
(* the environment: a circuit is the record of the arguments it was built  *)
(* from, a submitted job is the record of what was handed to run(), and a  *)
(* probability is a number of units out of ProbUnits.                      *)
(***************************************************************************)
EXTENDS Integers, Sequences, FiniteSets, TLC

(* ------------------------------ bounds --------------------------------- *)

\* longest text typed at the prompt
MaxInputLen == 2
\* most outcomes (labels) in one result distribution
MaxOutcomes == 2
\* a probability p is modelled as p * ProbUnits, a whole number of units
ProbUnits == 4

(* ------------------------- program constants --------------------------- *)

\* random.randint(0,7): the largest name
MaxName == 7
\* format(random_name, '03b'): the minimum field width
FormatWidth == 3
\* shots=1000
Shots == 1000

values == <<0, 1, 2, 3, 4, 5, 6, 7>>

\* legend=['1 iteration', '2 iterations', ...]: the counts the legend names
histogram_legend == <<1, 2, 3, 4, 5, 6, 7, 8>>

\* The names bound at module level by the import statements (lines 13-22);
\* line 23, the import of job_monitor, is commented out.
ImportedNames ==
    {"random", "getenv", "load_dotenv", "math", "plt", "transpile", "assemble",
     "IBMQ", "Statevector", "AmplificationProblem", "Grover",
     "QiskitRuntimeService", "Sampler", "Session", "plot_histogram"}

(* ------------------------------ helpers -------------------------------- *)

Range(s) == {s[i] : i \in DOMAIN s}

\* seq[i] of Python, i counted from 0
PyIndex(s, i) == s[i + 1]

SeqsUpTo(S, n) == UNION {[1..k -> S] : k \in 0..n}

BitChar(b) == IF b = 0 THEN "0" ELSE "1"

\* format(n, 'b'): the binary digits of n >= 0, most significant first
RECURSIVE FormatB(_)
FormatB(n) == IF n < 2 THEN <<BitChar(n)>>
              ELSE FormatB(n \div 2) \o <<BitChar(n % 2)>>

\* zero padding on the left up to width w; longer strings are left alone
RECURSIVE ZeroPad(_, _)
ZeroPad(s, w) == IF Len(s) >= w THEN s ELSE ZeroPad(<<"0">> \o s, w)

\* a formatter without the zero fill: format(n, 'b')
Format03b_NoPad(n) == FormatB(n)

\* format(n, '03b')
Format03b(n) == ZeroPad(FormatB(n), FormatWidth)

\* int(s, 2) for a string of binary digits: the reading of a label as the
\* number it encodes
RECURSIVE DecodeBits(_)
DecodeBits(s) ==
    IF s = <<>> THEN 0
    ELSE 2 * DecodeBits(SubSeq(s, 1, Len(s) - 1)) + (IF s[Len(s)] = "1" THEN 1 ELSE 0)

(* ------------------------- int(input(...)) ----------------------------- *)

\* the characters that can be typed in the model: digits, a letter, a blank
\* and a sign
InputChars == {"1", "2", "3", "a", " ", "-"}

Digits == {"0", "1", "2", "3", "4", "5", "6", "7", "8", "9"}

DigitValue(c) == CHOOSE d \in 0..9 : <<"0", "1", "2", "3", "4", "5", "6", "7", "8", "9">>[d + 1] = c

\* str.strip(): int() ignores leading and trailing whitespace
RECURSIVE Strip(_)
Strip(s) == IF s = <<>> THEN s
            ELSE IF s[1] = " " THEN Strip(Tail(s))
            ELSE IF s[Len(s)] = " " THEN Strip(SubSeq(s, 1, Len(s) - 1))
            ELSE s

Unsigned(s) == IF s # <<>> /\ s[1] = "-" THEN Tail(s) ELSE s

RECURSIVE Decimal(_)
Decimal(s) == IF s = <<>> THEN 0
              ELSE 10 * Decimal(SubSeq(s, 1, Len(s) - 1)) + DigitValue(s[Len(s)])

\* whether int(s) returns (TRUE) or raises ValueError (FALSE)
PyIntOk(s) == LET u == Unsigned(Strip(s))
              IN  u # <<>> /\ \A i \in DOMAIN u : u[i] \in Digits

\* int(s) for a string int() accepts
PyInt(s) == LET t == Strip(s)
            IN  IF t[1] = "-" THEN 0 - Decimal(Tail(t)) ELSE Decimal(t)

(* ------------------------- the result analysis ------------------------- *)

\* the bit-strings of exactly n characters
RECURSIVE BitStrings(_)
BitStrings(n) == IF n = 0 THEN {<<>>}
                 ELSE {<<b>> \o s : b \in {"0", "1"}, s \in BitStrings(n - 1)}

\* The labels binary_probabilities() can hand to the analysis: the binary form
\* of an outcome 0..MaxName, zero-filled to the register's width or left at
\* its own length (the source passes no width).
Labels == {Format03b(k) : k \in 0..MaxName} \cup {FormatB(k) : k \in 0..MaxName}

\* A results_dictionary: a Python dict in its iteration order, as a sequence
\* of <<label, probability>> with distinct labels and positive probabilities
\* that sum to 1 (ProbUnits units).
RECURSIVE SumProbs(_)
SumProbs(d) == IF d = <<>> THEN 0 ELSE d[1][2] + SumProbs(Tail(d))

Dictionaries ==
    {d \in UNION {[1..k -> Labels \X (1..ProbUnits)] : k \in 1..MaxOutcomes} :
        /\ \A i, j \in DOMAIN d : i # j => d[i][1] # d[j][1]
        /\ SumProbs(d) = ProbUnits}

\* min(d, key=d.get) in place of max
PyMaxKey_Min(d) ==
    LET i == CHOOSE i \in DOMAIN d :
                 /\ \A j \in DOMAIN d : d[j][2] >= d[i][2]
                 /\ \A j \in DOMAIN d : j < i => d[j][2] > d[i][2]
    IN  d[i][1]

\* max(d, key=d.get): the first key, in iteration order, whose value no other
\* value exceeds
PyMaxKey(d) ==
    LET i == CHOOSE i \in DOMAIN d :
                 /\ \A j \in DOMAIN d : d[j][2] <= d[i][2]
                 /\ \A j \in DOMAIN d : j < i => d[j][2] < d[i][2]
    IN  d[i][1]

\* 'Correct!' if answer == random_name_formatted else 'Failure!'
Verdict(answer, target) == IF answer = target THEN "Correct!" ELSE "Failure!"

\* "With {distribution + 1} iterations ..."
PrintedIterations(distribution) == distribution + 1

(* ------------------------------- state --------------------------------- *)

VARIABLES
    pc,                     \* the statement the interpreter is at
    random_name,            \* line 38
    random_name_formatted,  \* line 39
    unstructured_search,    \* line 42
    value,                  \* the loop variable of line 53
    grover_circuits,        \* line 46
    user_option,            \* line 63
    mapped_circuit,         \* line 101
    jobs,                   \* every batch handed to a run() call, in order
    job_state,              \* the submitted job, as the service sees it
    result,                 \* line 72: len(result.quasi_dists), once bound
    distribution,           \* the loop variable of line 83
    report,                 \* what lines 84-89 computed and printed last
    calls,                  \* the I/O and service calls made so far, in order
    error                   \* the exception that ended the run, if any

vars == <<pc, random_name, random_name_formatted, unstructured_search, value,
          grover_circuits, user_option, mapped_circuit, jobs, job_state,
          result, distribution, report, calls, error>>

None == "None"

\* a name that is not bound yet is the empty sequence, a bound one <<its value>>
Unbound == <<>>
Bound(x) == <<x>>
ValueOf(v) == v[1]

NoReport == [distribution |-> -1, dictionary |-> <<>>, answer |-> <<>>,
             printed_iterations |-> 0, verdict |-> None]

Init ==
    /\ pc = "select"
    /\ random_name = -1
    /\ random_name_formatted = <<>>
    /\ unstructured_search = None
    /\ value = 0
    /\ grover_circuits = <<>>
    /\ user_option = Unbound
    /\ mapped_circuit = <<>>
    /\ jobs = <<>>
    /\ job_state = "none"
    /\ result = Unbound
    /\ distribution = 0
    /\ report = NoReport
    /\ calls = <<>>
    /\ error = None

(* ---------------- STEP 1: the unstructured search problem -------------- *)

\* random_name = random.randint(0,7)
SelectTarget ==
    /\ pc = "select"
    /\ \E n \in 0..MaxName : random_name' = n
    /\ pc' = "format"
    /\ UNCHANGED <<random_name_formatted, unstructured_search, value,
                   grover_circuits, user_option, mapped_circuit, jobs,
                   job_state, result, distribution, report, calls, error>>

\* random_name_formatted = format(random_name, '03b')
FormatTarget ==
    /\ pc = "format"
    /\ random_name_formatted' = Format03b(random_name)
    /\ pc' = "problem"
    /\ UNCHANGED <<random_name, unstructured_search, value, grover_circuits,
                   user_option, mapped_circuit, jobs, job_state, result,
                   distribution, report, calls, error>>

\* oracle = Statevector.from_label(...); AmplificationProblem(oracle, is_good_state=...)
BuildProblem ==
    /\ pc = "problem"
    /\ unstructured_search' = [oracle |-> random_name_formatted,
                               is_good_state |-> random_name_formatted]
    /\ pc' = "build"
    /\ UNCHANGED <<random_name, random_name_formatted, value, grover_circuits,
                   user_option, mapped_circuit, jobs, job_state, result,
                   distribution, report, calls, error>>

(* ---------------- STEP 2: the batch of quantum circuits ---------------- *)

\* Grover(iterations=values[value])
IterationsOf(v) == PyIndex(values, v)

\* grover.construct_circuit(unstructured_search), then measure_all()
ConstructCircuit(v) ==
    [iterations |-> IterationsOf(v), problem |-> unstructured_search, measured |-> 1]

\* grover_circuits.insert(0, quantum_circuit) in place of append
AppendCircuit_Front(circuits, c) == <<c>> \o circuits

\* grover_circuits.append(quantum_circuit)
AppendCircuit(circuits, c) == Append(circuits, c)

\* one pass of: for value in range(0, len(values))
BuildCircuit ==
    /\ pc = "build"
    /\ value < Len(values)
    /\ grover_circuits' = AppendCircuit(grover_circuits, ConstructCircuit(value))
    /\ value' = value + 1
    /\ UNCHANGED <<pc, random_name, random_name_formatted, unstructured_search,
                   user_option, mapped_circuit, jobs, job_state, result,
                   distribution, report, calls, error>>

\* the range is exhausted
BuildDone ==
    /\ pc = "build"
    /\ value >= Len(values)
    /\ pc' = "prompt"
    /\ UNCHANGED <<random_name, random_name_formatted, unstructured_search, value,
                   grover_circuits, user_option, mapped_circuit, jobs,
                   job_state, result, distribution, report, calls, error>>

(* ---------------- STEP 3: the prompt and the three branches ------------ *)

Inputs == SeqsUpTo(InputChars, MaxInputLen)

\* user_option = int(input("Press 1 for simulator and 2 for real hardware: "))
ReadOption ==
    /\ pc = "prompt"
    /\ \E s \in Inputs :
          IF PyIntOk(s)
          THEN /\ user_option' = Bound(PyInt(s))
               /\ pc' = "dispatch"
               /\ error' = error
          ELSE /\ user_option' = user_option
               /\ pc' = "crashed"
               /\ error' = "ValueError"
    /\ calls' = Append(calls, "input")
    /\ UNCHANGED <<random_name, random_name_formatted, unstructured_search, value,
                   grover_circuits, mapped_circuit, jobs, job_state, result,
                   distribution, report>>

\* a dispatch whose last branch is the simulator instead of the exit
Branch_NoElse(option) == IF option = 2 THEN "hw_auth" ELSE "sim_service"

\* if user_option == 1: ... elif user_option == 2: ... else: ...
Branch(option) == IF option = 1 THEN "sim_service"
                  ELSE IF option = 2 THEN "hw_auth"
                  ELSE "close"

Dispatch ==
    /\ pc = "dispatch"
    /\ pc' = Branch(ValueOf(user_option))
    /\ UNCHANGED <<random_name, random_name_formatted, unstructured_search, value,
                   grover_circuits, user_option, mapped_circuit, jobs,
                   job_state, result, distribution, report, calls, error>>

\* print("Closing program!"); exit()
Close ==
    /\ pc = "close"
    /\ calls' = Append(calls, "exit")
    /\ pc' = "exited"
    /\ UNCHANGED <<random_name, random_name_formatted, unstructured_search, value,
                   grover_circuits, user_option, mapped_circuit, jobs,
                   job_state, result, distribution, report, error>>

\* the statements that call the cloud service
ServiceCallPcs == {"sim_service", "sim_session", "sim_submit", "sim_wait",
                   "hw_auth", "hw_backend", "hw_submit"}

\* A network or authentication failure of the service is not caught: it
\* propagates and ends the run.
ServiceFails ==
    /\ pc \in ServiceCallPcs
    /\ error' = "ServiceError"
    /\ pc' = "crashed"
    /\ UNCHANGED <<random_name, random_name_formatted, unstructured_search, value,
                   grover_circuits, user_option, mapped_circuit, jobs,
                   job_state, result, distribution, report, calls>>

\* the service finishes the job it was given
JobCompletes ==
    /\ job_state = "queued"
    /\ job_state' = "done"
    /\ UNCHANGED <<pc, random_name, random_name_formatted, unstructured_search,
                   value, grover_circuits, user_option, mapped_circuit,
                   jobs, result, distribution, report, calls, error>>

(* ----------------------------- simulator ------------------------------- *)

\* service = QiskitRuntimeService()
SimService ==
    /\ pc = "sim_service"
    /\ calls' = Append(calls, "QiskitRuntimeService")
    /\ pc' = "sim_session"
    /\ UNCHANGED <<random_name, random_name_formatted, unstructured_search, value,
                   grover_circuits, user_option, mapped_circuit, jobs,
                   job_state, result, distribution, report, error>>

\* with Session(service=service, backend=backend_simulator): sampler = Sampler()
SimSession ==
    /\ pc = "sim_session"
    /\ calls' = Append(calls, "Session")
    /\ pc' = "sim_submit"
    /\ UNCHANGED <<random_name, random_name_formatted, unstructured_search, value,
                   grover_circuits, user_option, mapped_circuit, jobs,
                   job_state, result, distribution, report, error>>

\* a submission of the first circuit alone
SimJob_Partial ==
    [via |-> "Sampler.run", circuits |-> SubSeq(grover_circuits, 1, 1), shots |-> Shots]

\* the arguments of sampler.run(circuits=grover_circuits, shots=1000)
SimJob == [via |-> "Sampler.run", circuits |-> grover_circuits, shots |-> Shots]

\* job = sampler.run(...)
SimSubmit ==
    /\ pc = "sim_submit"
    /\ jobs' = Append(jobs, SimJob)
    /\ job_state' = "queued"
    /\ calls' = Append(calls, "Sampler.run")
    /\ pc' = "sim_wait"
    /\ UNCHANGED <<random_name, random_name_formatted, unstructured_search, value,
                   grover_circuits, user_option, mapped_circuit, result,
                   distribution, report, error>>

\* result = job.result() blocks until the job is done; the sampler returns one
\* quasi-distribution per circuit of the job.  Lines 73-78 print.
SimResult ==
    /\ pc = "sim_wait"
    /\ job_state = "done"
    /\ result' = Bound(Len(jobs[Len(jobs)].circuits))
    /\ calls' = Append(calls, "job.result")
    /\ pc' = "analyse"
    /\ UNCHANGED <<random_name, random_name_formatted, unstructured_search, value,
                   grover_circuits, user_option, mapped_circuit, jobs,
                   job_state, distribution, report, error>>

(* ---------------- STEP 4: analysis of the simulator's results ---------- *)

\* Lines 84-89 of one pass of: for distribution in range(0, len(result.quasi_dists)).
\* Each quasi-distribution is read in exactly one pass, so its content is
\* drawn when it is read.  report is what the pass computed and printed.
Analyse ==
    /\ pc = "analyse"
    /\ distribution < ValueOf(result)
    /\ \E d \in Dictionaries :
          LET answer == PyMaxKey(d)
          IN  report' = [distribution |-> distribution,
                         dictionary |-> d,
                         answer |-> answer,
                         printed_iterations |-> PrintedIterations(distribution),
                         verdict |-> Verdict(answer, random_name_formatted)]
    /\ pc' = "analysed"
    /\ UNCHANGED <<random_name, random_name_formatted, unstructured_search,
                   value, grover_circuits, user_option, mapped_circuit,
                   jobs, job_state, result, distribution, calls, error>>

\* Line 90 and the step of the range.  results_dictionary and answer are
\* written again before they are next read, so the pass ends without them.
AnalyseNext ==
    /\ pc = "analysed"
    /\ distribution' = distribution + 1
    /\ report' = NoReport
    /\ pc' = "analyse"
    /\ UNCHANGED <<random_name, random_name_formatted, unstructured_search,
                   value, grover_circuits, user_option, mapped_circuit,
                   jobs, job_state, result, calls, error>>

AnalyseDone ==
    /\ pc = "analyse"
    /\ distribution >= ValueOf(result)
    /\ pc' = "plot"
    /\ UNCHANGED <<random_name, random_name_formatted, unstructured_search, value,
                   grover_circuits, user_option, mapped_circuit, jobs,
                   job_state, result, distribution, report, calls, error>>

\* plot_histogram(result.quasi_dists, legend=[...]); plt.show()
Plot ==
    /\ pc = "plot"
    /\ calls' = Append(calls, "plot_histogram")
    /\ pc' = "done"
    /\ UNCHANGED <<random_name, random_name_formatted, unstructured_search, value,
                   grover_circuits, user_option, mapped_circuit, jobs,
                   job_state, result, distribution, report, error>>

(* ---------------------------- real hardware ---------------------------- *)

\* IBMQ.save_account(...); IBMQ.load_account(); IBMQ.get_provider(...)
HwAuthenticate ==
    /\ pc = "hw_auth"
    /\ calls' = Append(calls, "IBMQ.load_account")
    /\ pc' = "hw_backend"
    /\ UNCHANGED <<random_name, random_name_formatted, unstructured_search, value,
                   grover_circuits, user_option, mapped_circuit, jobs,
                   job_state, result, distribution, report, error>>

\* backend_real_device = provider.get_backend('ibm_oslo')
HwBackend ==
    /\ pc = "hw_backend"
    /\ calls' = Append(calls, "get_backend")
    /\ pc' = "hw_transpile"
    /\ UNCHANGED <<random_name, random_name_formatted, unstructured_search, value,
                   grover_circuits, user_option, mapped_circuit, jobs,
                   job_state, result, distribution, report, error>>

\* transpile(grover_circuits, backend=backend_real_device): one mapped
\* circuit per circuit, in order
Transpile(circuits) ==
    [i \in DOMAIN circuits |->
        [iterations |-> circuits[i].iterations, problem |-> circuits[i].problem,
         measured |-> circuits[i].measured, backend |-> "ibm_oslo"]]

\* mapped_circuit = transpile(...); quantum_object = assemble(mapped_circuit, ...)
HwTranspile ==
    /\ pc = "hw_transpile"
    /\ mapped_circuit' = Transpile(grover_circuits)
    /\ calls' = Append(calls, "transpile")
    /\ pc' = "hw_submit"
    /\ UNCHANGED <<random_name, random_name_formatted, unstructured_search, value,
                   grover_circuits, user_option, jobs, job_state, result,
                   distribution, report, error>>

\* the quantum_object handed to backend_real_device.run()
HwJob == [via |-> "backend.run", circuits |-> mapped_circuit, shots |-> Shots]

\* job = backend_real_device.run(quantum_object)
HwSubmit ==
    /\ pc = "hw_submit"
    /\ jobs' = Append(jobs, HwJob)
    /\ job_state' = "queued"
    /\ calls' = Append(calls, "backend.run")
    /\ pc' = "hw_monitor"
    /\ UNCHANGED <<random_name, random_name_formatted, unstructured_search, value,
                   grover_circuits, user_option, mapped_circuit, result,
                   distribution, report, error>>

\* job_monitor(job): the name is looked up when the statement runs.  Its
\* import is commented out, so the lookup raises NameError and lines 105-110
\* (retrieve_job, job.result(), the prints) are never reached.
HwJobMonitor ==
    /\ pc = "hw_monitor"
    /\ IF "job_monitor" \in ImportedNames
       THEN /\ pc' = "hw_retrieve"
            /\ error' = error
       ELSE /\ pc' = "crashed"
            /\ error' = "NameError"
    /\ UNCHANGED <<random_name, random_name_formatted, unstructured_search, value,
                   grover_circuits, user_option, mapped_circuit, jobs,
                   job_state, result, distribution, report, calls>>

(* ------------------------------ the run -------------------------------- *)

Next ==
    \/ SelectTarget
    \/ FormatTarget
    \/ BuildProblem
    \/ BuildCircuit
    \/ BuildDone
    \/ ReadOption
    \/ Dispatch
    \/ Close
    \/ ServiceFails
    \/ JobCompletes
    \/ SimService
    \/ SimSession
    \/ SimSubmit
    \/ SimResult
    \/ Analyse
    \/ AnalyseNext
    \/ AnalyseDone
    \/ Plot
    \/ HwAuthenticate
    \/ HwBackend
    \/ HwTranspile
    \/ HwSubmit
    \/ HwJobMonitor

Spec == Init /\ [][Next]_vars

\* the run is over
Stopped == pc \in {"done", "exited", "crashed"}

(* ------------------------------ properties ----------------------------- *)

\* the statements before the target encoding exists
BeforeFormat == {"select", "format"}

\* the statements up to the end of the circuit loop
BeforeBatch == {"select", "format", "problem", "build"}

\* C1: for every target 0..7 the encoding is a string of exactly 3 binary
\* digits, and reading it back as a binary number gives the target.
C1_EncodingRoundTrips ==
    pc \notin BeforeFormat =>
        /\ Len(random_name_formatted) = FormatWidth
        /\ random_name_formatted \in BitStrings(FormatWidth)
        /\ DecodeBits(random_name_formatted) = random_name

C1_Witness ==
    /\ pc = "problem"
    /\ random_name = 5
    /\ random_name_formatted = <<"1", "0", "1">>

\* C2: once the circuit loop is over there are as many circuits as entries of
\* values, the circuit at position p was built with values[p], and each was
\* measured once; while the loop runs there is one circuit per pass made.
C2_BatchAlignedWithValues ==
    /\ Len(grover_circuits) = value
    /\ pc \notin BeforeBatch =>
          /\ Len(grover_circuits) = Len(values)
          /\ \A p \in 0..(Len(values) - 1) :
                /\ PyIndex(grover_circuits, p).iterations = PyIndex(values, p)
                /\ PyIndex(grover_circuits, p).measured = 1

C2_Witness ==
    /\ pc = "prompt"
    /\ Len(grover_circuits) = 8
    /\ PyIndex(grover_circuits, 5).iterations = 5

C4_NoSubmissionInOtherMode ==
    /\ (user_option # Unbound /\ ValueOf(user_option) \notin {1, 2}) =>
          /\ pc \in {"dispatch", "close", "exited"}
          /\ jobs = <<>>
          /\ job_state = "none"
          /\ Range(calls) \cap {"Sampler.run", "backend.run"} = {}
    /\ jobs # <<>> => user_option \in {Bound(1), Bound(2)}

C4_Witness ==
    /\ pc = "exited"
    /\ user_option = Bound(3)
    /\ jobs = <<>>

\* C5: whatever is typed at the prompt other than 1 or 2, numeric or not, the
\* run ends through the closing branch, with no exception.
C5_CleanAbortOnOtherInput ==
    ("input" \in Range(calls) /\ user_option \notin {Bound(1), Bound(2)} /\ Stopped) =>
        (pc = "exited" /\ error = None)

\* C6: when a batch of N circuits was submitted, in either mode, and the job
\* completed (the service did not fail), the run ends with exactly N
\* distributions analysed.
C6_AnalyzerProcessesEveryDistribution ==
    (Stopped /\ jobs # <<>> /\ job_state = "done" /\ error # "ServiceError") =>
        /\ pc = "done"
        /\ result = Bound(Len(jobs[1].circuits))
        /\ distribution = Len(jobs[1].circuits)

\* C7: every circuit of the batch is built with an iteration count >= 1.
C7_IterationCountsPositive ==
    \A i \in DOMAIN grover_circuits : grover_circuits[i].iterations >= 1

\* the service calls of the real-hardware branch, in the order of the claim
HardwareOrder == <<"input", "IBMQ.load_account", "get_backend", "transpile", "backend.run">>

\* C8: in mode 2 the steps happen in the order authenticate, resolve backend,
\* compile, submit, and after the submission the run does not stop with an
\* error of its own: only a failure of the service can end it early.
C8_HardwareRunReachesCompletion ==
    user_option = Bound(2) =>
        /\ Len(calls) <= Len(HardwareOrder)
        /\ calls = SubSeq(HardwareOrder, 1, Len(calls))
        /\ jobs # <<>> => error \in {None, "ServiceError"}

\* C9: at most one batch is ever handed to a run() call, and it holds every
\* circuit of grover_circuits in order, one per entry of values; there is no
\* second submission.
C9_SingleWholeSubmission ==
    /\ Len(jobs) <= 1
    /\ Cardinality({i \in DOMAIN calls : calls[i] \in {"Sampler.run", "backend.run"}}) = Len(jobs)
    /\ \A j \in DOMAIN jobs :
          /\ Len(jobs[j].circuits) = Len(values)
          /\ Len(jobs[j].circuits) = Len(grover_circuits)
          /\ \A p \in DOMAIN grover_circuits :
                /\ jobs[j].circuits[p].iterations = grover_circuits[p].iterations
                /\ jobs[j].circuits[p].problem = grover_circuits[p].problem
                /\ jobs[j].circuits[p].iterations = values[p]

C9_Witness ==
    /\ Len(jobs) = 1
    /\ jobs[1].via = "Sampler.run"
    /\ pc = "done"

\* C10: the iteration count printed for the distribution at position p, and
\* the histogram legend's entry for p, equal the iteration count the circuit
\* at position p of the submitted batch was built with.
C10_PrintedIterationsMatchBuild ==
    pc = "analysed" =>
        LET p     == report.distribution
            built == PyIndex(jobs[1].circuits, p).iterations
        IN  /\ report.printed_iterations = built
            /\ PyIndex(histogram_legend, p) = built

====
